---- MODULE Spec2Model ----
(***************************************************************************)
(* simd_vector<T, S> (du1simd.hpp): a fixed-size buffer of T aligned to    *)
(* sizeof(S), its element iterator, its lane ("simd") iterator, and the    *)
(* reduction driver of du1test.cpp (tester::sum / tester::simd_sum).       *)
(*                                                                         *)
(* Pointers are byte addresses (0 is nullptr).  Memory is a map from the   *)
(* address of an element to its value.  A lane is the tuple of the k       *)
(* elements that lie in sizeof(S) consecutive bytes.                       *)
(***************************************************************************)
EXTENDS Integers, Sequences, FiniteSets, TLC

\* largest element_count handed to simd_vector(std::size_t)
MaxCount == 5

\* nullptr
NULL == 0

\* the container objects of the lifetime specification
Vecs == {"A", "B"}

\* values an element of the buffer can hold
Values == {1, 2}

\* <<sizeof(T), sizeof(S)>>: float/float, uint8_t/uint32_t, float/__m128 as
\* instantiated in du1test.cpp, and a pair with k = 2
TypePairs == {<<4, 4>>, <<1, 4>>, <<4, 16>>, <<1, 2>>}

VARIABLES
    sizeofT,   \* sizeof(T)
    sizeofS,   \* sizeof(S)
    gnuc,      \* TRUE iff the build defines __GNUC__
    vec,       \* the simd_vector objects
    heap,      \* raw address of an allocation -> [bytes, freed]
    mem,       \* address of an element -> its value
    it,        \* the element iterator of the traversal loop
    visited,   \* offsets the traversal loop dereferenced, in order
    pc,        \* position of the traversal loop
    last       \* the operation that ran last, its arguments and results

vars == <<sizeofT, sizeofS, gnuc, vec, heap, mem, it, visited, pc, last>>

----------------------------------------------------------------------------
\* C++ integer division and remainder (truncation toward zero)

cdiv(a, b) == IF a >= 0 THEN a \div b ELSE -((-a) \div b)

cmod(a, b) == a - b * cdiv(a, b)

\* k = sizeof(S) / sizeof(T)
lane_k == cdiv(sizeofS, sizeofT)

----------------------------------------------------------------------------
\* The allocator

\* auto rounded_count = (s % k == 0) ? s : ((s / k) + 1) * k;
rounded_count(s, k) == IF cmod(s, k) = 0 THEN s ELSE (cdiv(s, k) + 1) * k

required_count_exact(s, k) == rounded_count(s, k)

\* auto required_count = rounded_count + k;
required_count(s, k) == rounded_count(s, k) + k

\* bytes asked of the underlying allocator
alloc_bytes(s) ==
    IF gnuc THEN rounded_count(s, lane_k) * sizeofT
            ELSE required_count(s, lane_k) * sizeofT

\* distance between the regions the underlying allocator hands out
ArenaStride == (rounded_count(MaxCount + 1, lane_k) + 2 * lane_k) * sizeofT

\* aligned_alloc returns NULL or an address that is a multiple of the
\* alignment; new T[] returns an address suitable for T
alloc_results ==
    LET base == (Cardinality(DOMAIN heap) + 1) * ArenaStride
    IN  IF gnuc THEN {NULL, base}
                ELSE {base + j * sizeofT : j \in 0 .. (lane_k - 1)}

std_align_none(alignment, size, ptr, space) ==
    [ok |-> size <= space, ptr |-> ptr, space |-> space]

\* std::align(alignment, size, ptr, space): the first address >= ptr that is
\* a multiple of alignment, if size bytes fit behind it in the buffer
std_align(alignment, size, ptr, space) ==
    LET aligned == ((ptr + alignment - 1) \div alignment) * alignment
        diff    == aligned - ptr
    IN  IF size + diff > space
        THEN [ok |-> FALSE, ptr |-> ptr, space |-> space]
        ELSE [ok |-> TRUE, ptr |-> aligned, space |-> space - diff]

NoVec ==
    [st |-> "none", k |-> 0, raw_block |-> NULL, aligned_begin |-> NULL,
     aligned_end |-> NULL, content_size |-> 0]

\* explicit simd_vector(std::size_t s), given the address raw the underlying
\* allocator returned
simd_vector_ctor(s, raw) ==
    LET k == cdiv(sizeofS, sizeofT)
        rc == rounded_count(s, k)
    IN  IF gnuc
        THEN IF raw = NULL
             THEN [threw |-> TRUE, v |-> NoVec]
             ELSE [threw |-> FALSE,
                   v |-> [st |-> "live", k |-> k, raw_block |-> raw,
                          aligned_begin |-> raw,
                          aligned_end |-> raw + s * sizeofT,
                          content_size |-> s]]
        ELSE LET a == std_align(sizeofS, rc * sizeofT, raw,
                                required_count(s, k) * sizeofT)
             IN  IF ~a.ok
                 THEN [threw |-> TRUE, v |-> NoVec]
                 ELSE [threw |-> FALSE,
                       v |-> [st |-> "live", k |-> k, raw_block |-> raw,
                              aligned_begin |-> a.ptr,
                              aligned_end |-> a.ptr + s * sizeofT,
                              content_size |-> s]]

\* addresses of the rounded_count elements that start at aligned_begin
region(v) ==
    IF v.raw_block = NULL THEN {}
    ELSE {v.aligned_begin + i * sizeofT :
            i \in 0 .. (rounded_count(v.content_size, v.k) - 1)}

\* initial contents of the lifetime specification's buffers
UniformFills(addrs) == {[a \in addrs |-> x] : x \in Values}

\* arbitrary initial contents
AllFills(addrs) == [addrs -> Values]

----------------------------------------------------------------------------
\* Move construction, move assignment, destruction

moved_from_keep(v) == v

\* body of simd_vector(self&& v): v.raw_block = nullptr; ...
moved_from(v) ==
    [v EXCEPT !.raw_block = NULL, !.aligned_begin = NULL, !.aligned_end = NULL]

\* member initialisers of simd_vector(self&& v)
move_ctor_init(v) ==
    [st |-> "live", k |-> v.k, raw_block |-> v.raw_block,
     aligned_begin |-> v.aligned_begin, aligned_end |-> v.aligned_end,
     content_size |-> v.content_size]

\* swap(self& other): the pair <<this, other>> afterwards
swap(this, other) ==
    << [this EXCEPT !.k = other.k, !.raw_block = other.raw_block,
                    !.aligned_begin = other.aligned_begin,
                    !.aligned_end = other.aligned_end,
                    !.content_size = other.content_size],
       [other EXCEPT !.k = this.k, !.raw_block = this.raw_block,
                     !.aligned_begin = this.aligned_begin,
                     !.aligned_end = this.aligned_end,
                     !.content_size = this.content_size] >>

\* free(raw_block) / delete raw_block: releasing nullptr does nothing
release(h, p) ==
    IF p = NULL \/ p \notin DOMAIN h THEN h
    ELSE [h EXCEPT ![p].freed = @ + 1]

\* size()
size(v) == v.content_size

\* the elements of the container, read through its aligned start
content(v) ==
    [o \in 0 .. (v.content_size - 1) |->
        LET a == v.aligned_begin + o * sizeofT
        IN  IF a \in DOMAIN mem THEN mem[a] ELSE 0]

NoIt == [base |-> NULL, offset |-> 0]

TypeInit ==
    /\ \E p \in TypePairs : sizeofT = p[1] /\ sizeofS = p[2]
    /\ gnuc \in BOOLEAN
    /\ vec = [x \in Vecs |-> NoVec]
    /\ heap = << >>
    /\ mem = << >>
    /\ it = NoIt
    /\ visited = << >>
    /\ pc = "start"
    /\ last = [op |-> "none"]

Init == TypeInit

\* T x(s): the constructor runs on the storage of object x
ConstructWith(x, s, raw, fill) ==
    LET r == simd_vector_ctor(s, raw)
        blk == [bytes |-> alloc_bytes(s), freed |-> 0]
    IN  /\ heap' = IF raw = NULL THEN heap ELSE (raw :> blk) @@ heap
        /\ IF r.threw
           THEN /\ vec' = vec
                /\ mem' = mem
           ELSE /\ vec' = [vec EXCEPT ![x] = r.v]
                /\ mem' = fill @@ mem
        /\ last' = [op |-> "ctor", x |-> x, s |-> s, raw |-> raw,
                    threw |-> r.threw]
        /\ pc' = IF r.threw THEN pc ELSE "built"
        /\ UNCHANGED <<sizeofT, sizeofS, gnuc, it, visited>>

Construct(x) ==
    /\ vec[x].st = "none"
    /\ \E s \in 0 .. MaxCount, raw \in alloc_results :
         \E fill \in UniformFills(region(simd_vector_ctor(s, raw).v)) :
            ConstructWith(x, s, raw, fill)

\* T dst(std::move(src))
MoveConstruct(dst, src) ==
    /\ dst # src
    /\ vec[dst].st = "none"
    /\ vec[src].st = "live"
    /\ vec' = [vec EXCEPT ![dst] = move_ctor_init(vec[src]),
                          ![src] = moved_from(vec[src])]
    /\ last' = [op |-> "move_ctor", dst |-> dst, src |-> src,
                pre |-> vec[src], pre_content |-> content(vec[src]),
                pre_dst |-> vec[dst]]
    /\ UNCHANGED <<sizeofT, sizeofS, gnuc, heap, mem, it, visited, pc>>

\* dst = std::move(src)
MoveAssign(dst, src) ==
    /\ vec[dst].st = "live"
    /\ vec[src].st = "live"
    /\ LET sw == swap(vec[dst], vec[src])
       IN  vec' = IF dst = src THEN vec
                  ELSE [vec EXCEPT ![dst] = sw[1], ![src] = sw[2]]
    /\ last' = [op |-> "move_assign", dst |-> dst, src |-> src,
                pre |-> vec[src], pre_content |-> content(vec[src]),
                pre_dst |-> vec[dst]]
    /\ UNCHANGED <<sizeofT, sizeofS, gnuc, heap, mem, it, visited, pc>>

\* ~simd_vector()
Destroy(x) ==
    /\ vec[x].st = "live"
    /\ heap' = release(heap, vec[x].raw_block)
    /\ vec' = [vec EXCEPT ![x].st = "dead"]
    /\ last' = [op |-> "dtor", x |-> x]
    /\ UNCHANGED <<sizeofT, sizeofS, gnuc, mem, it, visited, pc>>

Next ==
    \/ \E x \in Vecs : Construct(x)
    \/ \E d \in Vecs, s \in Vecs : MoveConstruct(d, s)
    \/ \E d \in Vecs, s \in Vecs : MoveAssign(d, s)
    \/ \E x \in Vecs : Destroy(x)

Spec == Init /\ [][Next]_vars

----------------------------------------------------------------------------
\* Element iterator (simd_vector_iterator) and lane iterator
\* (simd_vector_simd_iterator): records [base, offset]

iterator(origin, off) == [base |-> origin, offset |-> off]

\* begin()
begin(v) == iterator(v.aligned_begin, 0)

end_rounded(v) == iterator(v.aligned_begin, rounded_count(v.content_size, v.k))

\* end()
end(v) == iterator(v.aligned_begin, v.content_size)

\* operator!=
it_ne(a, b) == (a.base # b.base) \/ (a.offset # b.offset)

\* operator==
it_eq(a, b) == (a.base = b.base) /\ (a.offset = b.offset)

\* operator++ and operator--
it_inc(a) == [a EXCEPT !.offset = @ + 1]

it_dec(a) == [a EXCEPT !.offset = @ - 1]

\* operator+(iterator, ptrdiff_t)
it_plus(a, n) == [a EXCEPT !.offset = @ + n]

\* difference_type operator-(const self& a)
it_minus(a, b) == a.offset - b.offset

lower_block_next(a) == iterator(a.base, cdiv(a.offset, lane_k) + 1)

\* lower_block()
lower_block(a) == iterator(a.base, cdiv(a.offset, lane_k))

\* upper_block()
upper_block(a) == iterator(a.base, cdiv(a.offset, lane_k) + 1)

\* lower_offset()
lower_offset(a) == cmod(a.offset, lane_k)

\* upper_offset()
upper_offset(a) == cmod(a.offset, lane_k) - (lane_k - 1)

\* address of the element an element iterator designates: base[offset]
elem_addr(a) == a.base + a.offset * sizeofT

\* address of the lane a lane iterator designates: base[offset] of an S*
lane_addr(a) == a.base + a.offset * sizeofS

\* T& operator*(): the value read; g is what a read outside the buffer yields
elem_read(m, a, g) ==
    IF elem_addr(a) \in DOMAIN m THEN m[elem_addr(a)] ELSE g

\* S& operator*() as an rvalue: the k elements of the lane; g[j] is what a
\* read outside the buffer yields
lane_read(m, a, g) ==
    [j \in 0 .. (lane_k - 1) |->
        LET ad == lane_addr(a) + j * sizeofT
        IN  IF ad \in DOMAIN m THEN m[ad] ELSE g[j]]

\* S& operator*() as an lvalue: the memory after storing the lane l
lane_write(m, a, l) ==
    [ad \in DOMAIN m |->
        IF \E j \in 0 .. (lane_k - 1) : ad = lane_addr(a) + j * sizeofT
        THEN l[(ad - lane_addr(a)) \div sizeofT]
        ELSE m[ad]]

\* lane indexes that lie inside the rounded_count elements of v
lanes_of(v) == 0 .. (cdiv(rounded_count(v.content_size, v.k), v.k) - 1)

\* all lanes whose elements are values of the element type
LaneValues == [0 .. (lane_k - 1) -> Values]

\* the lane as the unsigned integer the machine reads from its bytes, lowest
\* address in the lowest-order byte (uint8_t elements, integer carrier)
lane_value(l) ==
    LET RECURSIVE pack(_)
        pack(j) == IF j = lane_k THEN 0
                   ELSE l[j] * (2 ^ (8 * sizeofT * j)) + pack(j + 1)
    IN  pack(0)

\* the lane an unsigned integer is stored as
lane_of_value(x) ==
    [j \in 0 .. (lane_k - 1) |->
        (x \div (2 ^ (8 * sizeofT * j))) % (2 ^ (8 * sizeofT))]

----------------------------------------------------------------------------
\* The lane operations of du1test.cpp (namespace du1simd)

\* add
simd_add(a, b) == [j \in 0 .. (lane_k - 1) |-> a[j] + b[j]]

\* sum: two horizontal adds leave the sum of all elements in element 0
simd_hsum(a) ==
    LET RECURSIVE upto(_)
        upto(j) == IF j = lane_k THEN 0 ELSE a[j] + upto(j + 1)
    IN  upto(0)

\* mask_data_.lmask_[i]: TRUE where the element is kept
lmask(i) == [j \in 0 .. (lane_k - 1) |-> j >= i]

\* mask_data_.umask_[i]: TRUE where the element is kept
umask(i) == [j \in 0 .. (lane_k - 1) |-> j <= i]

\* _mm_and_ps with a mask of all-ones and all-zero elements
and_ps(a, m) == [j \in 0 .. (lane_k - 1) |-> IF m[j] THEN a[j] ELSE 0]

\* the assertions of mask_lower
mask_lower_ok(lgap) == lgap >= 0 /\ lgap < lane_k

\* the assertions of mask_upper
mask_upper_ok(ugap) == ugap > -lane_k /\ ugap <= 0

\* mask_lower
mask_lower(a, lgap) == and_ps(a, lmask(lgap))

\* mask_upper
mask_upper(a, ugap) == and_ps(a, umask(ugap + (lane_k - 1)))

\* mask_both
mask_both(a, lgap, ugap) == mask_upper(mask_lower(a, lgap), ugap)

----------------------------------------------------------------------------
\* tester::sum and tester::simd_sum

\* for (; b != e; ++ b) acc = acc + * b;
RECURSIVE sum_loop(_, _, _, _)
sum_loop(m, b, e, acc) ==
    IF it_ne(b, e) THEN sum_loop(m, it_inc(b), e, acc + elem_read(m, b, 0))
    ELSE acc

\* tester::sum
sum(m, b, e) == sum_loop(m, b, e, 0)

\* for ( ++ bb; bb != ee; ++ bb) acc = simd_op::add( acc, * bb);
RECURSIVE simd_loop(_, _, _, _, _)
simd_loop(m, bb, ee, acc, g) ==
    IF it_ne(bb, ee)
    THEN simd_loop(m, it_inc(bb), ee, simd_add(acc, lane_read(m, bb, g)), g)
    ELSE acc

\* tester::simd_sum: the value returned, the lane indexes dereferenced and
\* whether every assertion of the mask operations held
simd_sum(m, b, e, g) ==
    LET bb == lower_block(b)
        ee == upper_block(e)
        ee1 == it_dec(ee)
        lo == lower_offset(b)
        uo == upper_offset(e)
    IN  IF it_eq(bb, ee)
        THEN [value |-> 0, lanes |-> {}, ok |-> TRUE]
        ELSE IF it_eq(bb, ee1)
        THEN [value |-> simd_hsum(mask_both(lane_read(m, bb, g), lo, uo)),
              lanes |-> {bb.offset},
              ok |-> mask_lower_ok(lo) /\ mask_upper_ok(uo)]
        ELSE LET acc == simd_loop(m, it_inc(bb), ee1,
                                  mask_lower(lane_read(m, bb, g), lo), g)
             IN  [value |-> simd_hsum(simd_add(acc,
                               mask_upper(lane_read(m, ee1, g), uo))),
                  lanes |-> bb.offset .. ee1.offset,
                  ok |-> mask_lower_ok(lo) /\ mask_upper_ok(uo)]

----------------------------------------------------------------------------
\* One container "A", arbitrary contents, and one iterator operation on it.
\* Every content is a content the constructor can leave, so one operation
\* per behaviour reaches every case of every operation.

\* what the reads of simd_sum(b, e) outside the buffer of v can yield: any
\* lane, when there is such a read
garbage(v, b, e) ==
    IF simd_sum(mem, b, e, [j \in 0 .. (lane_k - 1) |-> 0]).lanes
          \subseteq lanes_of(v)
    THEN {[j \in 0 .. (lane_k - 1) |-> 0]}
    ELSE LaneValues

\* simd_vector<T, S> A(s) over uninitialised memory
ConstructAny ==
    /\ vec["A"].st = "none"
    /\ \E s \in 0 .. MaxCount, raw \in alloc_results :
         \E fill \in AllFills(region(simd_vector_ctor(s, raw).v)) :
            ConstructWith("A", s, raw, fill)

\* auto it = A.begin() of the loop for (it = begin(); it != end(); it++)
TraverseBegin ==
    /\ pc = "built"
    /\ it' = begin(vec["A"])
    /\ visited' = << >>
    /\ pc' = "loop"
    /\ last' = [op |-> "traverse"]
    /\ UNCHANGED <<sizeofT, sizeofS, gnuc, vec, heap, mem>>

\* one test of it != end() and, if it holds, one pass through the body
TraverseStep ==
    /\ pc = "loop"
    /\ IF it_ne(it, end(vec["A"]))
       THEN /\ visited' = Append(visited, it.offset)
            /\ it' = it_inc(it)
            /\ pc' = "loop"
       ELSE /\ pc' = "done"
            /\ UNCHANGED <<it, visited>>
    /\ UNCHANGED <<sizeofT, sizeofS, gnuc, vec, heap, mem, last>>

\* the lane stored by an assignment of the carrier value that holds the
\* elements l: an integer carrier goes through its integer value
stored_lane(l) == IF sizeofT = 1 THEN lane_of_value(lane_value(l)) ELSE l

\* my_simd_it[i] = l, with my_simd_it = begin().lower_block()
LaneWrite ==
    /\ pc = "built"
    /\ \E i \in lanes_of(vec["A"]), l \in LaneValues :
         /\ mem' = lane_write(mem, it_plus(lower_block(begin(vec["A"])), i),
                              stored_lane(l))
         /\ last' = [op |-> "lane_write", i |-> i, l |-> l, before |-> mem]
    /\ pc' = "written"
    /\ UNCHANGED <<sizeofT, sizeofS, gnuc, vec, heap, it, visited>>

\* s1 = sum(b, e); s2 = simd_sum(b, e) for begin() <= b <= e <= end()
Reduce ==
    /\ pc = "built"
    /\ \E bo \in 0 .. size(vec["A"]) :
         \E eo \in bo .. size(vec["A"]) :
            LET b == it_plus(begin(vec["A"]), bo)
                e == it_plus(begin(vec["A"]), eo)
            IN  \E g \in garbage(vec["A"], b, e) :
                   LET r == simd_sum(mem, b, e, g)
                   IN  last' = [op |-> "reduce", b |-> bo, e |-> eo,
                                s1 |-> sum(mem, b, e), s2 |-> r.value,
                                lanes |-> r.lanes, ok |-> r.ok]
    /\ pc' = "reduced"
    /\ UNCHANGED <<sizeofT, sizeofS, gnuc, vec, heap, mem, it, visited>>

NextIter ==
    \/ ConstructAny
    \/ TraverseBegin
    \/ TraverseStep
    \/ LaneWrite
    \/ Reduce

SpecIter == Init /\ [][NextIter]_vars

----------------------------------------------------------------------------
\* Properties

A == vec["A"]

Moves == {"move_ctor", "move_assign"}

\* a read outside the buffer, told apart from every value of an element
Poison == [j \in 0 .. (lane_k - 1) |-> -1 - j]

\* the element at offset o of the buffer that starts at aligned_begin, in
\* the memory m
at(m, v, o) == m[v.aligned_begin + o * sizeofT]

\* C1: for every sub-range [b, e) with begin() <= b <= e <= end(), simd_sum
\* returns the value the element-by-element fold sum returns.  Stated on the
\* ranges for which simd_sum reads lanes of the buffer only, so that no
\* violation rests on what a read outside the buffer yields (those ranges
\* are C10's)
C1_ReductionEqualsFold ==
    (last.op = "reduce" /\ last.lanes \subseteq lanes_of(A)) =>
        last.s2 = last.s1

\* C2: simd_sum(b, e) with b == e returns the fold identity 0.  Stated on
\* the positions b for which simd_sum reads lanes of the buffer only
C2_EmptyRangeIsIdentity ==
    (last.op = "reduce" /\ last.b = last.e
        /\ last.lanes \subseteq lanes_of(A)) => last.s2 = 0

\* C3: after a move the destination has the size, aligned start and content
\* the source had; no buffer is ever released twice; no buffer is released
\* while a live container refers to it; once every container is destroyed
\* every allocated buffer has been released exactly once
C3_MoveSemantics ==
    /\ last.op \in Moves =>
          /\ size(vec[last.dst]) = last.pre.content_size
          /\ vec[last.dst].aligned_begin = last.pre.aligned_begin
          /\ content(vec[last.dst]) = last.pre_content
    /\ \A a \in DOMAIN heap : heap[a].freed <= 1
    /\ \A x \in Vecs :
          (vec[x].st = "live" /\ vec[x].raw_block # NULL) =>
              /\ vec[x].raw_block \in DOMAIN heap
              /\ heap[vec[x].raw_block].freed = 0
    /\ (\A x \in Vecs : vec[x].st = "dead") =>
          \A a \in DOMAIN heap : heap[a].freed = 1

\* B was move-constructed from a non-empty A, and both have been destroyed
C3_Witness ==
    /\ \A x \in Vecs : vec[x].st = "dead"
    /\ vec["A"].raw_block = NULL
    /\ vec["B"].raw_block # NULL
    /\ vec["B"].content_size > 0
    /\ heap[vec["B"].raw_block].freed = 1

\* C4: after a move the moved-from container owns no buffer (raw handle and
\* aligned start and end are null) and its size() is 0
C4_MovedFromIsEmpty ==
    (last.op \in Moves /\ last.dst # last.src) =>
        /\ vec[last.src].raw_block = NULL
        /\ vec[last.src].aligned_begin = NULL
        /\ vec[last.src].aligned_end = NULL
        /\ size(vec[last.src]) = 0

\* C5: end() - begin() == n == size(), and the loop from begin() to end()
\* visits exactly the offsets 0 .. n-1 in order
C5_LogicalBound ==
    /\ pc = "built" =>
          /\ it_minus(end(A), begin(A)) = last.s
          /\ size(A) = last.s
    /\ pc \in {"loop", "done"} =>
          /\ visited = [i \in 1 .. Len(visited) |-> i - 1]
          /\ \A i \in 1 .. Len(visited) : visited[i] < size(A)
    /\ pc = "done" => Len(visited) = size(A)

\* the loop has ended on a container whose last lane is partly padding
C5_Witness ==
    /\ pc = "done"
    /\ Len(visited) = size(A)
    /\ size(A) > 0
    /\ rounded_count(size(A), A.k) > size(A)

\* C6: element lower_offset() of the lane *lower_block() is the element *it,
\* at lane index o / k and intra-lane index o % k, element 0 in the
\* lowest-order byte; a lane written at lane index i sets the elements at
\* offsets i*k .. i*k+k-1 and leaves every other element unchanged
C6_LaneElementViews ==
    /\ pc # "start" =>
          \A o \in 0 .. (size(A) - 1) :
             LET e == it_plus(begin(A), o)
                 lane == lane_read(mem, lower_block(e), Poison)
             IN  /\ lower_block(e).offset = o \div lane_k
                 /\ lower_offset(e) = o % lane_k
                 /\ lane[lower_offset(e)] = elem_read(mem, e, -100)
                 /\ sizeofT = 1 =>
                      (lane_value(lane) \div (256 ^ lower_offset(e))) % 256
                         = elem_read(mem, e, -100)
    /\ last.op = "lane_write" =>
          \A o \in 0 .. (rounded_count(size(A), A.k) - 1) :
             at(mem, A, o) =
                IF o \in (last.i * lane_k) .. (last.i * lane_k + lane_k - 1)
                THEN last.l[o - last.i * lane_k]
                ELSE at(last.before, A, o)
    /\ (sizeofT = 1 /\ sizeofS = 4) =>
          /\ lane_value([j \in 0 .. 3 |-> j]) = 50462976
          /\ lane_of_value(84215045) = [j \in 0 .. 3 |-> 5]

\* a lane other than the first was written and changed the memory
C6_Witness ==
    /\ last.op = "lane_write"
    /\ last.i >= 1
    /\ lane_k >= 2
    /\ mem # last.before

\* C7: begin() is a multiple of sizeof(S), and the rounded_count elements
\* from begin() lie inside the raw allocation the container owns
C7_AlignedInsideAllocation ==
    \A x \in Vecs :
       (vec[x].st = "live" /\ vec[x].raw_block # NULL) =>
          /\ begin(vec[x]).base % sizeofS = 0
          /\ vec[x].raw_block \in DOMAIN heap
          /\ vec[x].raw_block <= begin(vec[x]).base
          /\ begin(vec[x]).base
                + rounded_count(size(vec[x]), vec[x].k) * sizeofT
             <= vec[x].raw_block + heap[vec[x].raw_block].bytes

\* a container whose raw allocation did not start on a lane boundary
C7_Witness ==
    \E x \in Vecs :
       /\ vec[x].st = "live"
       /\ vec[x].raw_block # NULL
       /\ vec[x].raw_block % sizeofS # 0
       /\ size(vec[x]) = MaxCount

\* C8: under the over-allocation strategy the constructor never throws
\* alignment_exception; a constructor that throws constructs nothing
C8_AlignmentNeverFails ==
    /\ (last.op = "ctor" /\ ~gnuc) => ~last.threw
    /\ (last.op = "ctor" /\ last.threw) => vec[last.x].st = "none"
    /\ ~gnuc =>
          \A s \in 0 .. MaxCount, j \in 0 .. (lane_k - 1) :
             ~simd_vector_ctor(s, ArenaStride + j * sizeofT).threw

\* the over-allocating constructor succeeded on the worst raw address
C8_Witness ==
    /\ last.op = "ctor"
    /\ ~gnuc
    /\ ~last.threw
    /\ lane_k > 1
    /\ last.raw % sizeofS = sizeofT
    /\ last.s > 0

\* C9: upper_offset() is (o % k) - (k - 1), lies in [-(k-1), 0] so that the
\* assertions of mask_upper hold, and is 0 exactly when o is a multiple of
\* k, its negation being the number of trailing elements of the range's
\* last lane that lie outside a range ending (exclusively) at o
C9_UpperOffset ==
    pc = "built" =>
       \A o \in 0 .. size(A) :
          LET u == upper_offset(it_plus(begin(A), o))
          IN  /\ u = (o % lane_k) - (lane_k - 1)
              /\ u \in (-(lane_k - 1)) .. 0
              /\ mask_upper_ok(u)
              /\ (u = 0) <=> (o % lane_k = 0)
              /\ -u = (lane_k - (o % lane_k)) % lane_k

\* C10: every lane simd_sum dereferences has a lane index in
\* [0, rounded_count / k)
C10_LanesInsideBuffer ==
    last.op = "reduce" => last.lanes \subseteq lanes_of(A)

====
